---- MODULE Spec2Model ----
(***************************************************************************)
(* ops-beacon: the Event entity (validation, id counter, acknowledgment),   *)
(* the use cases built on the event repository, and the real-time batch     *)
(* processor.  Event objects live in a heap (events) and are referred to    *)
(* by their index, as Python refers to them by reference.                   *)
(***************************************************************************)
EXTENDS Integers, Sequences, FiniteSets, TLC

\* ---- bounds of the model ------------------------------------------------
MaxEvents == 2
MaxId == 2
MaxBatch == 3
MaxSorted == 3
MaxInstant == 2

\* ---- enumerations -------------------------------------------------------
AlertLevel == {"NORMAL", "WARNING", "ERROR"}

EventStatus == {"NEW", "ACKNOWLEDGED"}

\* ---- inputs a caller can pass to the constructor --------------------------
\* "" is the empty string, " " a whitespace-only string
Sources == {"api", "", " "}

\* the kind of value passed as metadata
Metadatas == {"dict", "list"}

\* the values that are a dict: {} and {"k": 1}
Dicts == {"dict", "dict_k"}

\* a datetime: its tzinfo ("UTC" or "none" for a naive one) and its instant
Instants == {1}

Timestamps == [tzinfo : {"UTC", "none"}, t : Instants]

Ids == 1..MaxId

\* str.strip() on the modelled sources
strip(s) == IF s = " " THEN "" ELSE s

\* ---- exceptions -----------------------------------------------------------
\* the class an exception class derives from
base_class(cls) ==
    IF cls \in {"InvalidEventStateError", "InvalidEventTransitionError", "EventNotFoundError"}
    THEN "DomainException"
    ELSE "Exception"

\* isinstance(raised, cls) for a raised exception of class `raised`
is_instance(raised, cls) == raised = cls \/ base_class(raised) = cls

\* ---- Event: validation ----------------------------------------------------
\* (first without the strip() test)
validate_source_empty_only(e) == IF e.source = "" THEN "InvalidEventStateError" ELSE "ok"

validate_source(e) == IF e.source = "" \/ strip(e.source) = "" THEN "InvalidEventStateError" ELSE "ok"

validate_metadata(e) == IF e.metadata \notin Dicts THEN "InvalidEventStateError" ELSE "ok"

validate_timestamp(e) == IF e.timestamp.tzinfo = "none" THEN "InvalidEventStateError" ELSE "ok"

validate_initial_state(e) ==
    IF e.level = "NORMAL" /\ e.status = "ACKNOWLEDGED" THEN "InvalidEventStateError" ELSE "ok"

\* __post_init__: the four validations in order, the first failure is raised
post_init(e) ==
    IF validate_source(e) # "ok" THEN validate_source(e)
    ELSE IF validate_metadata(e) # "ok" THEN validate_metadata(e)
    ELSE IF validate_timestamp(e) # "ok" THEN validate_timestamp(e)
    ELSE validate_initial_state(e)

\* the dataclass constructor: the fields as given, status as passed
NewEvent(id, source, metadata, level, timestamp, status) ==
    [id |-> id, source |-> source, metadata |-> metadata, level |-> level,
     timestamp |-> timestamp, status |-> status]

\* ---- Event: predicates ----------------------------------------------------
\* (first as if only ERROR required it)
requires_acknowledgment_error_only(level) == level = "ERROR"

requires_acknowledgment(level) == level \in {"WARNING", "ERROR"}

\* (first without the status test)
needs_alert_any_status(e) == requires_acknowledgment(e.level)

needs_alert(e) == requires_acknowledgment(e.level) /\ e.status = "NEW"

\* ---- Event.acknowledge: the event afterwards and what was raised ----------
\* variants with one rule missing or misplaced: no status check, no level
\* check, a status written back, the status written before the level check
acknowledge_idempotent(e) ==
    IF e.level = "NORMAL"
    THEN [event |-> e, raised |-> "InvalidEventTransitionError"]
    ELSE [event |-> [e EXCEPT !.status = "ACKNOWLEDGED"], raised |-> "ok"]

acknowledge_any_level(e) ==
    IF e.status = "ACKNOWLEDGED"
    THEN [event |-> e, raised |-> "InvalidEventTransitionError"]
    ELSE [event |-> [e EXCEPT !.status = "ACKNOWLEDGED"], raised |-> "ok"]

acknowledge_toggle(e) ==
    IF e.level = "NORMAL"
    THEN [event |-> e, raised |-> "InvalidEventTransitionError"]
    ELSE IF e.status = "ACKNOWLEDGED"
    THEN [event |-> [e EXCEPT !.status = "NEW"], raised |-> "InvalidEventTransitionError"]
    ELSE [event |-> [e EXCEPT !.status = "ACKNOWLEDGED"], raised |-> "ok"]

acknowledge_set_before_check(e) ==
    IF e.status = "ACKNOWLEDGED"
    THEN [event |-> e, raised |-> "InvalidEventTransitionError"]
    ELSE IF e.level = "NORMAL"
    THEN [event |-> [e EXCEPT !.status = "ACKNOWLEDGED"], raised |-> "InvalidEventTransitionError"]
    ELSE [event |-> [e EXCEPT !.status = "ACKNOWLEDGED"], raised |-> "ok"]

\* (and one that also clears the metadata when it succeeds)
acknowledge_clear_metadata(e) ==
    IF e.level = "NORMAL"
    THEN [event |-> e, raised |-> "InvalidEventTransitionError"]
    ELSE IF e.status = "ACKNOWLEDGED"
    THEN [event |-> e, raised |-> "InvalidEventTransitionError"]
    ELSE [event |-> [e EXCEPT !.status = "ACKNOWLEDGED", !.metadata = "dict"], raised |-> "ok"]

acknowledge(e) ==
    IF e.level = "NORMAL"
    THEN [event |-> e, raised |-> "InvalidEventTransitionError"]
    ELSE IF e.status = "ACKNOWLEDGED"
    THEN [event |-> e, raised |-> "InvalidEventTransitionError"]
    ELSE [event |-> [e EXCEPT !.status = "ACKNOWLEDGED"], raised |-> "ok"]

\* ---- state ----------------------------------------------------------------
VARIABLES
    given,        \* the arguments a caller holds for a constructor call (<<>>: none)
    threads,      \* the calls that run concurrently, by thread (<<>>: none)
    events,       \* the live Event objects, by handle (index)
    next_id,      \* Event._next_id, the class-wide counter
    created,      \* ids of the events Event.create has returned, in call order
    since_reset,  \* how many of them were returned after the last reset_id_counter
    store,        \* the repository: handles of the events it holds
    pc,           \* where the running use case is: "idle" when none runs
    rule,         \* process: the IRule the processor holds, "default" or "custom"
    batch,        \* process: the events argument
    processed,    \* process: processed_events; sweep: the list get_all() returned
    idx,          \* process / sweep: list elements the running loop has finished
    should_alert, \* per handle: the should_alert attribute the rule left ("unset": none)
    calls,        \* collaborator calls made by the running / last use case, in order
    last          \* the last operation: what, on what, what it raised, what it called

vars == <<given, threads, events, next_id, created, since_reset, store, pc, rule, batch,
          processed, idx, should_alert, calls, last>>

\* the locals of a running use case
frame == <<pc, rule, batch, processed, idx, should_alert, calls>>

Handles == 1..Len(events)

Call(svc, arg) == [svc |-> svc, arg |-> arg]

\* an operation that ran in one step: what, on what, what it raised and the
\* calls it made on its collaborators
OutcomeCalling(op, arg, raised, made) ==
    [op |-> op, arg |-> arg, raised |-> raised, made |-> made, returned |-> "None"]

\* an operation that returned a value
OutcomeReturning(op, arg, value) ==
    [OutcomeCalling(op, arg, "ok", <<>>) EXCEPT !.returned = value]

Outcome(op, arg, raised) == OutcomeCalling(op, arg, raised, <<>>)

InitFrame ==
    /\ pc = "idle"
    /\ rule = "none"
    /\ batch = <<>>
    /\ processed = <<>>
    /\ idx = 0
    /\ should_alert = <<>>
    /\ calls = <<>>

Init ==
    /\ given = <<>>
    /\ threads = <<>>
    /\ events = <<>>
    /\ next_id = 1
    /\ created = <<>>
    /\ since_reset = 0
    /\ store = {}
    /\ InitFrame
    /\ last = Outcome("init", 0, "ok")

\* a new object enters the heap
Allocate(e) == events' = Append(events, e)

\* ---- Event(...) called directly -------------------------------------------
\* the constructor called with the field values of e
ConstructWith(e) ==
    /\ pc = "idle"
    /\ Len(events) < MaxEvents
    /\ IF post_init(e) = "ok"
       THEN Allocate(e)
       ELSE UNCHANGED events
    /\ last' = Outcome("construct", 0, post_init(e))
    /\ UNCHANGED <<next_id, created, since_reset, store, frame, given, threads>>

Construct ==
    \E id \in Ids, source \in Sources, metadata \in Metadatas, level \in AlertLevel,
       timestamp \in Timestamps, status \in EventStatus :
        ConstructWith(NewEvent(id, source, metadata, level, timestamp, status))

\* the constructor called with the arguments the caller holds
ConstructGiven == ConstructWith(given)

\* ---- Event.create ---------------------------------------------------------
\* the id the call takes and the counter it leaves (first without the += 1)
create_no_increment(counter) == [event_id |-> counter, next_id |-> counter]

create_take_id(counter) == [event_id |-> counter, next_id |-> counter + 1]

\* cls(id=event_id, ..., status=EventStatus.NEW) (first passing ACKNOWLEDGED)
create_event_acknowledged(event_id, source, metadata, level, timestamp) ==
    NewEvent(event_id, source, metadata, level, timestamp, "ACKNOWLEDGED")

create_event(event_id, source, metadata, level, timestamp) ==
    NewEvent(event_id, source, metadata, level, timestamp, "NEW")

Create ==
    \E source \in Sources, metadata \in Metadatas, level \in AlertLevel, timestamp \in Timestamps :
        LET taken == create_take_id(next_id)
            e == create_event(taken.event_id, source, metadata, level, timestamp) IN
        /\ pc = "idle"
        /\ Len(events) < MaxEvents
        /\ next_id <= MaxId
        /\ next_id' = taken.next_id
        /\ IF post_init(e) = "ok"
           THEN /\ Allocate(e)
                /\ created' = Append(created, e.id)
                /\ since_reset' = since_reset + 1
           ELSE UNCHANGED <<events, created, since_reset>>
        /\ last' = Outcome("create", 0, post_init(e))
        /\ UNCHANGED <<store, frame, given, threads>>

\* ---- Event.reset_id_counter -----------------------------------------------
ResetIdCounter ==
    \E start_from \in Ids :
        /\ pc = "idle"
        /\ next_id' = start_from
        /\ since_reset' = 0
        /\ last' = Outcome("reset_id_counter", start_from, "ok")
        /\ UNCHANGED <<events, created, store, frame, given, threads>>

\* ---- event.acknowledge() --------------------------------------------------
Acknowledge(h) ==
    LET r == acknowledge(events[h]) IN
    /\ pc = "idle"
    /\ events' = [events EXCEPT ![h] = r.event]
    /\ last' = Outcome("acknowledge", h, r.raised)
    /\ UNCHANGED <<next_id, created, since_reset, store, frame, given, threads>>

AcknowledgeAny == \E h \in Handles : Acknowledge(h)

\* ---- helpers on lists ----------------------------------------------------
Range(q) == {q[i] : i \in 1..Len(q)}

Reverse(q) == [i \in 1..Len(q) |-> q[Len(q) + 1 - i]]

\* the lists of at most MaxBatch events a caller can pass
Batches == UNION {[1..n -> Handles] : n \in 0..MaxBatch}

\* ---- CreateEventUseCase.execute -------------------------------------------
\* repository.add(event): the repository now holds the event
CreateEventUseCase ==
    \E h \in Handles :
        /\ pc = "idle"
        /\ store' = store \cup {h}
        /\ last' = Outcome("CreateEventUseCase", 0, "ok")
        /\ UNCHANGED <<events, next_id, created, since_reset, frame, given, threads>>

\* ---- AckEventUseCase.execute ----------------------------------------------
\* repository.get_by_id: the stored events with that id (none: it returns None)
get_by_id(event_id) == {h \in store : events[h].id = event_id}

\* the calls execute(event_id) makes, in order: found is the event get_by_id
\* returned (0 for None), raised what event.acknowledge() raised (first with
\* the update made twice, then with the update made whatever acknowledge did)
ack_calls_update_twice(event_id, found, raised) ==
    <<Call("repository.get_by_id", <<event_id>>)>>
    \o (IF found = 0 THEN <<>> ELSE <<Call("event.acknowledge", <<found>>)>>)
    \o (IF found # 0 /\ raised = "ok"
        THEN <<Call("repository.update", <<found>>), Call("repository.update", <<found>>)>>
        ELSE <<>>)

ack_calls_update_always(event_id, found, raised) ==
    <<Call("repository.get_by_id", <<event_id>>)>>
    \o (IF found = 0 THEN <<>>
        ELSE <<Call("event.acknowledge", <<found>>), Call("repository.update", <<found>>)>>)

ack_calls(event_id, found, raised) ==
    <<Call("repository.get_by_id", <<event_id>>)>>
    \o (IF found = 0 THEN <<>> ELSE <<Call("event.acknowledge", <<found>>)>>)
    \o (IF found # 0 /\ raised = "ok" THEN <<Call("repository.update", <<found>>)>> ELSE <<>>)

\* execute returns the event it loaded, acknowledged and updated
AckEventUseCase ==
    \E event_id \in Ids :
        /\ pc = "idle"
        /\ IF get_by_id(event_id) = {}
           THEN /\ last' = OutcomeCalling("AckEventUseCase", event_id, "DomainException",
                                          ack_calls(event_id, 0, "ok"))
                /\ UNCHANGED events
           ELSE \E h \in get_by_id(event_id) :
                    LET r == acknowledge(events[h]) IN
                    /\ events' = [events EXCEPT ![h] = r.event]
                    /\ last' = OutcomeCalling("AckEventUseCase", event_id, r.raised,
                                              ack_calls(event_id, h, r.raised))
        \* repository.update(event) stores the object it was given back
        /\ UNCHANGED <<next_id, created, since_reset, store, frame, given, threads>>

\* ---- a running use case returns or raises to its caller --------------------
Return ==
    /\ pc \in {"done", "failed"}
    /\ pc' = "idle"
    /\ rule' = "none"
    /\ batch' = <<>>
    /\ processed' = <<>>
    /\ idx' = 0
    /\ should_alert' = <<>>
    /\ calls' = <<>>
    /\ UNCHANGED <<given, threads, events, next_id, created, since_reset, store, last>>

\* ---- RealTimeEventProcessor.process ---------------------------------------
\* the statement that runs after a stage returned (first with steps 2 and 3
\* the other way round)
stage_after_alert_first(stage) ==
    CASE stage = "rule" -> "alert"
      [] stage = "alert" -> "save"
      [] stage = "save" -> "show"
      [] stage = "show" -> "show"
      [] OTHER -> "done"

stage_after(stage) ==
    CASE stage = "rule" -> "save"
      [] stage = "save" -> "alert"
      [] stage = "alert" -> "show"
      [] stage = "show" -> "show"
      [] OTHER -> "done"

\* where control goes when a stage has returned: into (or on in) the show loop
\* only if there is an event left to show
after_stage(stage, left) ==
    IF stage_after(stage) = "show" /\ left = 0 THEN "done" ELSE stage_after(stage)

\* where control goes when a stage raised: process has no try/except (first
\* as if each stage were wrapped in one, then as if a failed alert led to a
\* second save)
on_raise_swallow(stage, left) == after_stage(stage, left)

on_raise_save_again(stage, left) == IF stage = "alert" THEN "save" ELSE "failed"

on_raise(stage, left) == "failed"

\* alerted_events = [event for event in processed_events if event.should_alert]
alerted_events(list, flag) == SelectSeq(list, LAMBDA h : flag[h] = "T")

\* the alert_service.alert calls of step 3 (first as a call per event)
alert_calls_per_event(list, flag) ==
    [i \in 1..Len(alerted_events(list, flag)) |->
        Call("alert_service.alert", <<alerted_events(list, flag)[i]>>)]

alert_calls(list, flag) == <<Call("alert_service.alert", alerted_events(list, flag))>>

\* the display_service.show call of one loop iteration (first passing the list)
show_call_whole_list(list, i) == Call("display_service.show", list)

show_call(list, i) == Call("display_service.show", <<list[i]>>)

\* the default rule: returns the batch, each event annotated with needs_alert()
DefaultRule(b) ==
    [list |-> b,
     flag |-> [h \in Handles |-> IF h \notin Range(b) THEN "unset"
                                 ELSE IF needs_alert(events[h]) THEN "T" ELSE "F"]]

\* a custom rule: returns the batch, its reverse or its tail, and either sets
\* should_alert on every event it returns or on none of them.  Event declares
\* no should_alert field, so an event the rule did not annotate has none; one
\* such event in the list is enough for step 3 to raise, so "none of them"
\* stands for every partial annotation.  Whatever attribute an earlier call
\* left on an event is one of the values a rule can set here.
CustomLists(b) == {b, Reverse(b)} \cup (IF Len(b) > 0 THEN {Tail(b)} ELSE {})

CustomFlags(l) ==
    {[h \in Handles |-> "unset"]} \cup
    {[h \in Handles |-> IF h \notin Range(l) THEN "unset" ELSE IF h \in yes THEN "T" ELSE "F"] :
        yes \in SUBSET Range(l)}

CustomRule(b) == UNION {{[list |-> l, flag |-> f] : f \in CustomFlags(l)} : l \in CustomLists(b)}

\* process(events) is called on a processor built with one of the rules
ProcessCall ==
    \E b \in Batches, r \in {"default", "custom"} :
        /\ pc = "idle"
        /\ pc' = "rule"
        /\ rule' = r
        /\ batch' = b
        /\ processed' = <<>>
        /\ idx' = 0
        /\ should_alert' = [h \in Handles |-> "unset"]
        /\ calls' = <<>>
        /\ last' = Outcome("process", 0, "ok")
        /\ UNCHANGED <<given, threads, events, next_id, created, since_reset, store>>

\* 1. processed_events = self.rule.apply(events)
ProcessRule ==
    /\ pc = "rule"
    /\ calls' = Append(calls, Call("rule.apply", batch))
    /\ \/ \E r \in (IF rule = "default" THEN {DefaultRule(batch)} ELSE CustomRule(batch)) :
            /\ processed' = r.list
            /\ should_alert' = r.flag
            /\ pc' = after_stage("rule", Len(r.list))
            /\ UNCHANGED last
       \/ /\ pc' = on_raise("rule", 0)
          /\ last' = Outcome("process", 0, "RuleError")
          /\ UNCHANGED <<processed, should_alert>>
    /\ UNCHANGED <<given, threads, events, next_id, created, since_reset, store, rule, batch, idx>>

\* 2. self.event_repository.save(processed_events); a save that raises has
\* stored nothing
ProcessSave ==
    /\ pc = "save"
    /\ calls' = Append(calls, Call("repository.save", processed))
    /\ \/ /\ store' = store \cup Range(processed)
          /\ pc' = after_stage("save", Len(processed))
          /\ UNCHANGED last
       \/ /\ pc' = on_raise("save", Len(processed))
          /\ last' = Outcome("process", 0, "SaveError")
          /\ UNCHANGED store
    /\ UNCHANGED <<given, threads, events, next_id, created, since_reset, rule, batch, processed,
                   idx, should_alert>>

\* 3. the filter on should_alert, then self.alert_service.alert(alerted_events)
ProcessAlert ==
    /\ pc = "alert"
    /\ IF \E h \in Range(processed) : should_alert[h] = "unset"
       THEN \* reading event.should_alert raises AttributeError
            /\ pc' = "failed"
            /\ last' = Outcome("process", 0, "AttributeError")
            /\ UNCHANGED calls
       ELSE /\ calls' = calls \o alert_calls(processed, should_alert)
            /\ \/ /\ pc' = after_stage("alert", Len(processed))
                  /\ UNCHANGED last
               \/ /\ pc' = on_raise("alert", Len(processed))
                  /\ last' = Outcome("process", 0, "AlertError")
    /\ UNCHANGED <<given, threads, events, next_id, created, since_reset, store, rule, batch,
                   processed, idx, should_alert>>

\* 4. for event in processed_events: self.display_service.show(event)
ProcessShow ==
    /\ pc = "show"
    /\ idx < Len(processed)
    /\ calls' = Append(calls, show_call(processed, idx + 1))
    /\ \/ /\ idx' = idx + 1
          /\ pc' = after_stage("show", Len(processed) - (idx + 1))
          /\ UNCHANGED last
       \/ /\ pc' = on_raise("show", Len(processed) - (idx + 1))
          /\ last' = Outcome("process", 0, "ShowError")
          /\ UNCHANGED idx
    /\ UNCHANGED <<given, threads, events, next_id, created, since_reset, store, rule, batch,
                   processed, should_alert>>

\* ---- the priority comparator ---------------------------------------------
\* AlertLevel.__lt__ (first with the values auto() gave the members)
priority_order_by_value(level) ==
    CASE level = "NORMAL" -> 1
      [] level = "WARNING" -> 2
      [] level = "ERROR" -> 3

priority_order(level) ==
    CASE level = "ERROR" -> 0
      [] level = "WARNING" -> 1
      [] level = "NORMAL" -> 2

level_lt(a, b) == priority_order(a) < priority_order(b)

\* Event.__lt__ (first with the later timestamp first)
event_lt_newest_first(a, b) ==
    IF a.level # b.level THEN level_lt(a.level, b.level)
    ELSE a.timestamp.t > b.timestamp.t

event_lt(a, b) ==
    IF a.level # b.level THEN level_lt(a.level, b.level)
    ELSE a.timestamp.t < b.timestamp.t

\* sorted(list of events): list.sort on a short list is a binary insertion
\* sort that compares with < only; the place of x in the sorted list q, found
\* between lo and hi
RECURSIVE insert_at(_, _, _, _)
insert_at(q, x, lo, hi) ==
    IF lo >= hi THEN lo
    ELSE LET p == lo + ((hi - lo) \div 2) IN
         IF event_lt(events[x], events[q[p]])
         THEN insert_at(q, x, lo, p)
         ELSE insert_at(q, x, p + 1, hi)

insort(q, x) ==
    LET at == insert_at(q, x, 1, Len(q) + 1) IN
    SubSeq(q, 1, at - 1) \o <<x>> \o SubSeq(q, at, Len(q))

RECURSIVE sorted(_)
sorted(q) ==
    IF q = <<>> THEN <<>>
    ELSE insort(sorted(SubSeq(q, 1, Len(q) - 1)), q[Len(q)])

\* a caller sorts a list of events
SortCall ==
    \E b \in Batches :
        /\ pc = "idle"
        /\ pc' = "done"
        /\ batch' = b
        /\ processed' = sorted(b)
        /\ last' = Outcome("sorted", 0, "ok")
        /\ UNCHANGED <<given, threads, events, next_id, created, since_reset, store, rule, idx,
                       should_alert, calls>>

\* Event.__eq__ (first as the field-by-field equality a dataclass generates)
event_eq_all_fields(a, b) == a = b

event_eq(a, b) == a.id = b.id

bool(b) == IF b THEN "True" ELSE "False"

\* a caller evaluates a == b on two events
EqCall ==
    \E a, b \in Handles :
        /\ pc = "idle"
        /\ last' = OutcomeReturning("__eq__", <<a, b>>, bool(event_eq(events[a], events[b])))
        /\ UNCHANGED <<events, next_id, created, since_reset, store, frame, given, threads>>

\* repository.get_all(): the stored events as a list in priority order
RECURSIVE sorted_lists(_)
sorted_lists(S) ==
    IF S = {} THEN {<<>>}
    ELSE UNION {{<<h>> \o l : l \in sorted_lists(S \ {h})} :
                    h \in {m \in S : \A o \in S : ~event_lt(events[o], events[m])}}

get_all == sorted_lists(store)

\* ---- AlertEventsUseCase.execute -------------------------------------------
SweepCall ==
    \E l \in get_all :
        /\ pc = "idle"
        /\ pc' = IF Len(l) = 0 THEN "done" ELSE "sweep"
        /\ processed' = l
        /\ idx' = 0
        /\ calls' = <<Call("repository.get_all", <<>>)>>
        /\ last' = Outcome("AlertEventsUseCase", 0, "ok")
        /\ UNCHANGED <<given, threads, events, next_id, created, since_reset, store, rule, batch,
                       should_alert>>

\* one iteration of the loop: alert the event if it needs an alert
SweepStep ==
    /\ pc = "sweep"
    /\ idx < Len(processed)
    /\ IF needs_alert(events[processed[idx + 1]])
       THEN /\ calls' = Append(calls, Call("alert_service.alert", <<processed[idx + 1]>>))
            /\ \/ /\ idx' = idx + 1
                  /\ pc' = IF idx + 1 < Len(processed) THEN "sweep" ELSE "done"
                  /\ UNCHANGED last
               \/ \* the alert raised: execute has no try/except
                  /\ pc' = "failed"
                  /\ last' = Outcome("AlertEventsUseCase", 0, "AlertError")
                  /\ UNCHANGED idx
       ELSE /\ idx' = idx + 1
            /\ pc' = IF idx + 1 < Len(processed) THEN "sweep" ELSE "done"
            /\ UNCHANGED <<calls, last>>
    /\ UNCHANGED <<given, threads, events, next_id, created, since_reset, store, rule, batch,
                   processed, should_alert>>

\* ---- specifications -------------------------------------------------------
NextEntity == Construct \/ Create \/ ResetIdCounter \/ AcknowledgeAny

\* the Event class on its own
SpecEntity == Init /\ [][NextEntity]_vars

\* three events that exist already: one that needs an alert, a NORMAL one and
\* an acknowledged one, with the levels WARNING and ERROR either way round;
\* or two that need an alert and an acknowledged one
Existing(id, level, status) == NewEvent(id, "api", "dict", level, [tzinfo |-> "UTC", t |-> 1], status)

ScenarioHeaps ==
    { << Existing(1, "ERROR", "NEW"), Existing(2, "NORMAL", "NEW"), Existing(3, "WARNING", "ACKNOWLEDGED") >>,
      << Existing(1, "WARNING", "NEW"), Existing(2, "NORMAL", "NEW"), Existing(3, "ERROR", "ACKNOWLEDGED") >>,
      << Existing(1, "ERROR", "NEW"), Existing(2, "WARNING", "NEW"), Existing(3, "ERROR", "ACKNOWLEDGED") >> }

InitPipeline ==
    /\ given = <<>>
    /\ threads = <<>>
    /\ events \in ScenarioHeaps
    /\ next_id = Len(events) + 1
    /\ created = <<>>
    /\ since_reset = 0
    /\ store = {}
    /\ InitFrame
    /\ last = Outcome("init", 0, "ok")

InitUseCases ==
    /\ given = <<>>
    /\ threads = <<>>
    /\ events \in ScenarioHeaps
    /\ next_id = Len(events) + 1
    /\ created = <<>>
    /\ since_reset = 0
    /\ store \in SUBSET (1..Len(events))
    /\ InitFrame
    /\ last = Outcome("init", 0, "ok")

NextUseCases ==
    \/ AcknowledgeAny \/ CreateEventUseCase \/ AckEventUseCase
    \/ SweepCall \/ SweepStep
    \/ ProcessCall \/ ProcessRule \/ ProcessSave \/ ProcessAlert \/ ProcessShow
    \/ Return

\* the use cases over events that exist already
SpecUseCases == InitUseCases /\ [][NextUseCases]_vars

Next ==
    \/ Construct \/ Create \/ ResetIdCounter \/ AcknowledgeAny
    \/ CreateEventUseCase \/ AckEventUseCase
    \/ SweepCall \/ SweepStep
    \/ ProcessCall \/ ProcessRule \/ ProcessSave \/ ProcessAlert \/ ProcessShow
    \/ Return

NextAck == Construct \/ Create \/ AcknowledgeAny \/ CreateEventUseCase \/ AckEventUseCase

\* events are built, stored and acknowledged, directly or through the use case
SpecAck == Init /\ [][NextAck]_vars

\* the whole program, from no event at all
Spec == Init /\ [][Next]_vars

NextPipeline == ProcessCall \/ ProcessRule \/ ProcessSave \/ ProcessAlert \/ ProcessShow \/ Return

\* the batch processor over events that exist already
SpecPipeline == InitPipeline /\ [][NextPipeline]_vars

\* every combination of constructor arguments
ConstructorArgs ==
    {NewEvent(id, source, metadata, level, timestamp, status) :
        id \in Ids, source \in Sources, metadata \in Metadatas, level \in AlertLevel,
        timestamp \in Timestamps, status \in EventStatus}

InitValidation ==
    /\ given \in ConstructorArgs
    /\ threads = <<>>
    /\ events = <<>>
    /\ next_id = 1
    /\ created = <<>>
    /\ since_reset = 0
    /\ store = {}
    /\ InitFrame
    /\ last = Outcome("init", 0, "ok")

NextValidation == ConstructGiven \/ AcknowledgeAny

\* the constructor on one given combination of arguments
SpecValidation == InitValidation /\ [][NextValidation]_vars

\* valid events of every level at the instants 1..MaxInstant, event i with id
\* i; a list takes the events in any order, so the heap holds them in one order
\* of (level, instant)
SortInstants == 1..MaxInstant

LevelOf(k) == CASE k = 0 -> "NORMAL" [] k = 1 -> "WARNING" [] OTHER -> "ERROR"

SortableEvent(i, k) ==
    NewEvent(i, "api", "dict", LevelOf((k - 1) \div MaxInstant),
             [tzinfo |-> "UTC", t |-> ((k - 1) % MaxInstant) + 1], "NEW")

SortingHeaps ==
    {[i \in 1..MaxSorted |-> SortableEvent(i, f[i])] :
        f \in {g \in [1..MaxSorted -> 1..(3 * MaxInstant)] :
                    \A i, j \in 1..MaxSorted : i < j => g[i] <= g[j]}}

InitSorting ==
    /\ given = <<>>
    /\ threads = <<>>
    /\ events \in SortingHeaps
    /\ next_id = Len(events) + 1
    /\ created = <<>>
    /\ since_reset = 0
    /\ store = {}
    /\ InitFrame
    /\ last = Outcome("init", 0, "ok")

NextSorting == SortCall \/ Return

\* lists of events sorted with the priority comparator
SpecSorting == InitSorting /\ [][NextSorting]_vars

\* two valid events with any ids, sources, metadata, levels, instants and
\* statuses
ComparableEvents ==
    {e \in {NewEvent(id, source, metadata, level, [tzinfo |-> "UTC", t |-> t], status) :
                id \in Ids, source \in {"api", "db"}, metadata \in Dicts, level \in AlertLevel,
                t \in SortInstants, status \in EventStatus} :
        post_init(e) = "ok"}

InitEquality ==
    /\ given = <<>>
    /\ threads = <<>>
    /\ events \in [1..2 -> ComparableEvents]
    /\ next_id = 1
    /\ created = <<>>
    /\ since_reset = 0
    /\ store = {}
    /\ InitFrame
    /\ last = Outcome("init", 0, "ok")

NextEquality == EqCall \/ AcknowledgeAny

\* comparisons of two events
SpecEquality == InitEquality /\ [][NextEquality]_vars

\* a store that holds some of the events of a sorting heap
InitSweepOrder ==
    /\ given = <<>>
    /\ threads = <<>>
    /\ events \in SortingHeaps
    /\ next_id = Len(events) + 1
    /\ created = <<>>
    /\ since_reset = 0
    /\ store \in SUBSET (1..Len(events))
    /\ InitFrame
    /\ last = Outcome("init", 0, "ok")

NextSweepOrder == SweepCall \/ SweepStep \/ Return

\* sweeps over stored events of several levels and instants
SpecSweepOrder == InitSweepOrder /\ [][NextSweepOrder]_vars

NextCreate == Create \/ AcknowledgeAny \/ CreateEventUseCase

\* events come from Event.create only and the counter is never reset
SpecCreate == Init /\ [][NextCreate]_vars

\* ---- two AckEventUseCase.execute calls in two threads ----------------------
\* the threads of a concurrent run
Threads == 1..2

\* a thread about to run execute(event_id)
AckThread(event_id) == [pc |-> "get_by_id", event_id |-> event_id, event |-> 0, raised |-> "ok"]

\* event = self.event_repository.get_by_id(event_id), and the test for None
ThreadGetById(t) ==
    /\ threads[t].pc = "get_by_id"
    /\ IF get_by_id(threads[t].event_id) = {}
       THEN threads' = [threads EXCEPT ![t].pc = "raised", ![t].raised = "DomainException"]
       ELSE \E h \in get_by_id(threads[t].event_id) :
                threads' = [threads EXCEPT ![t].pc = "check_level", ![t].event = h]
    /\ UNCHANGED <<given, events, next_id, created, since_reset, store, frame, last>>

\* event.acknowledge(): if self.level == AlertLevel.NORMAL: raise
ThreadCheckLevel(t) ==
    /\ threads[t].pc = "check_level"
    /\ IF events[threads[t].event].level = "NORMAL"
       THEN threads' = [threads EXCEPT ![t].pc = "raised",
                                       ![t].raised = "InvalidEventTransitionError"]
       ELSE threads' = [threads EXCEPT ![t].pc = "check_status"]
    /\ UNCHANGED <<given, events, next_id, created, since_reset, store, frame, last>>

\* event.acknowledge(): if self.status == EventStatus.ACKNOWLEDGED: raise
ThreadCheckStatus(t) ==
    /\ threads[t].pc = "check_status"
    /\ IF events[threads[t].event].status = "ACKNOWLEDGED"
       THEN threads' = [threads EXCEPT ![t].pc = "raised",
                                       ![t].raised = "InvalidEventTransitionError"]
       ELSE threads' = [threads EXCEPT ![t].pc = "set_status"]
    /\ UNCHANGED <<given, events, next_id, created, since_reset, store, frame, last>>

\* event.acknowledge(): self.status = EventStatus.ACKNOWLEDGED
ThreadSetStatus(t) ==
    /\ threads[t].pc = "set_status"
    /\ events' = [events EXCEPT ![threads[t].event].status = "ACKNOWLEDGED"]
    /\ threads' = [threads EXCEPT ![t].pc = "update"]
    /\ UNCHANGED <<given, next_id, created, since_reset, store, frame, last>>

\* self.event_repository.update(event), then return event
ThreadUpdate(t) ==
    /\ threads[t].pc = "update"
    /\ threads' = [threads EXCEPT ![t].pc = "returned"]
    /\ UNCHANGED <<given, events, next_id, created, since_reset, store, frame, last>>

ThreadAckGetById == \E t \in Threads : ThreadGetById(t)

ThreadAckCheckLevel == \E t \in Threads : ThreadCheckLevel(t)

ThreadAckCheckStatus == \E t \in Threads : ThreadCheckStatus(t)

ThreadAckSetStatus == \E t \in Threads : ThreadSetStatus(t)

ThreadAckUpdate == \E t \in Threads : ThreadUpdate(t)

\* each thread is about to call execute with some id on a store of events that
\* exist already
InitConcurrentAck ==
    /\ given = <<>>
    /\ threads \in [Threads -> {AckThread(event_id) : event_id \in Ids}]
    /\ events \in ScenarioHeaps
    /\ next_id = Len(events) + 1
    /\ created = <<>>
    /\ since_reset = 0
    /\ store \in SUBSET (1..Len(events))
    /\ InitFrame
    /\ last = Outcome("init", 0, "ok")

NextConcurrentAck ==
    \/ ThreadAckGetById \/ ThreadAckCheckLevel \/ ThreadAckCheckStatus
    \/ ThreadAckSetStatus \/ ThreadAckUpdate

\* two execute calls whose statements interleave
SpecConcurrentAck == InitConcurrentAck /\ [][NextConcurrentAck]_vars

\* ---- two Event.create calls in two threads ---------------------------------
\* a thread about to run Event.create(source, {}, level, timestamp)
CreateThread(source, level) ==
    [pc |-> "read_id", source |-> source, level |-> level, event_id |-> 0, tmp |-> 0,
     raised |-> "ok"]

\* event_id = cls._next_id
ThreadReadId(t) ==
    /\ threads[t].pc = "read_id"
    /\ threads' = [threads EXCEPT ![t].pc = "load_counter", ![t].event_id = next_id]
    /\ UNCHANGED <<given, events, next_id, created, since_reset, store, frame, last>>

\* cls._next_id += 1: the counter is read ...
ThreadLoadCounter(t) ==
    /\ threads[t].pc = "load_counter"
    /\ threads' = [threads EXCEPT ![t].pc = "store_counter", ![t].tmp = next_id]
    /\ UNCHANGED <<given, events, next_id, created, since_reset, store, frame, last>>

\* ... and what was read plus one is written back
ThreadStoreCounter(t) ==
    /\ threads[t].pc = "store_counter"
    /\ next_id' = threads[t].tmp + 1
    /\ threads' = [threads EXCEPT ![t].pc = "construct"]
    /\ UNCHANGED <<given, events, created, since_reset, store, frame, last>>

\* return cls(id=event_id, ..., status=EventStatus.NEW)
ThreadConstruct(t) ==
    LET e == create_event(threads[t].event_id, threads[t].source, "dict", threads[t].level,
                          [tzinfo |-> "UTC", t |-> 1]) IN
    /\ threads[t].pc = "construct"
    /\ IF post_init(e) = "ok"
       THEN /\ Allocate(e)
            /\ created' = Append(created, e.id)
            /\ since_reset' = since_reset + 1
            /\ threads' = [threads EXCEPT ![t].pc = "returned"]
       ELSE /\ threads' = [threads EXCEPT ![t].pc = "raised", ![t].raised = post_init(e)]
            /\ UNCHANGED <<events, created, since_reset>>
    /\ UNCHANGED <<given, next_id, store, frame, last>>

ThreadCreateReadId == \E t \in Threads : ThreadReadId(t)

ThreadCreateLoadCounter == \E t \in Threads : ThreadLoadCounter(t)

ThreadCreateStoreCounter == \E t \in Threads : ThreadStoreCounter(t)

ThreadCreateConstruct == \E t \in Threads : ThreadConstruct(t)

\* each thread is about to call Event.create, the counter being 1
InitConcurrentCreate ==
    /\ given = <<>>
    /\ threads \in [Threads -> {CreateThread(source, level) :
                                    source \in Sources, level \in AlertLevel}]
    /\ events = <<>>
    /\ next_id = 1
    /\ created = <<>>
    /\ since_reset = 0
    /\ store = {}
    /\ InitFrame
    /\ last = Outcome("init", 0, "ok")

NextConcurrentCreate ==
    \/ ThreadCreateReadId \/ ThreadCreateLoadCounter \/ ThreadCreateStoreCounter
    \/ ThreadCreateConstruct

\* two create calls whose statements interleave
SpecConcurrentCreate == InitConcurrentCreate /\ [][NextConcurrentCreate]_vars

\* ---- properties ------------------------------------------------------------
IsTransitionError(o) == o.raised = "InvalidEventTransitionError"

\* the step just taken was event.acknowledge() on the object h
AcknowledgedNow(h) == last'.op = "acknowledge" /\ last'.arg = h

\* C1: acknowledge() on a WARNING or ERROR event that is NEW succeeds and makes
\* it ACKNOWLEDGED; on an ACKNOWLEDGED event it raises the transition error and
\* the status stays ACKNOWLEDGED; a call succeeds only from NEW and no step
\* takes an event back to NEW, so at most one call per event succeeds.
C1_AcknowledgeOnce ==
    [][\A h \in Handles :
        /\ events[h].status = "ACKNOWLEDGED" => events'[h].status = "ACKNOWLEDGED"
        /\ AcknowledgedNow(h) =>
            /\ (events[h].level \in {"WARNING", "ERROR"} /\ events[h].status = "NEW")
                    => (last'.raised = "ok" /\ events'[h].status = "ACKNOWLEDGED")
            /\ events[h].status = "ACKNOWLEDGED"
                    => (IsTransitionError(last') /\ events'[h].status = "ACKNOWLEDGED")
            /\ last'.raised = "ok"
                    => (events[h].status = "NEW" /\ events'[h].status = "ACKNOWLEDGED")]_vars

\* the only event there is came NEW from create, was acknowledged, and a
\* second acknowledge() of it has just been refused
C1_Witness ==
    /\ Len(events) = 1
    /\ Len(created) = 1
    /\ last = Outcome("acknowledge", 1, "InvalidEventTransitionError")
    /\ events[1].level \in {"WARNING", "ERROR"}
    /\ events[1].status = "ACKNOWLEDGED"

\* C2: whatever events are constructed (directly or by create) and however they
\* are acknowledged (directly or through AckEventUseCase), no NORMAL event is
\* ACKNOWLEDGED.
C2_NormalNeverAcknowledged ==
    \A h \in Handles : ~(events[h].level = "NORMAL" /\ events[h].status = "ACKNOWLEDGED")

\* AckEventUseCase has just been refused on a stored NORMAL event
C2_Witness ==
    /\ last.op = "AckEventUseCase"
    /\ IsTransitionError(last)
    /\ \E h \in store : get_by_id(last.arg) = {h} /\ events[h].level = "NORMAL"

\* C3: the only change of an event's status is NEW -> ACKNOWLEDGED; no use case
\* and no acknowledge() takes an ACKNOWLEDGED event back to NEW.
C3_StatusOneWay ==
    [][/\ Len(events') >= Len(events)
       /\ \A h \in Handles :
            events'[h].status # events[h].status
                => (events[h].status = "NEW" /\ events'[h].status = "ACKNOWLEDGED")]_vars

\* an event that was NEW has been acknowledged, stored, and then processed
C3_Witness ==
    /\ events[1].status = "ACKNOWLEDGED"
    /\ 1 \in store
    /\ last.op = "process"
    /\ pc = "done"
    /\ 1 \in Range(processed)

\* C4: acknowledge() on a NORMAL event raises the transition error and leaves
\* the event as it was.
C4_NormalAcknowledgeRefused ==
    [][\A h \in Handles :
        (AcknowledgedNow(h) /\ events[h].level = "NORMAL")
            => (IsTransitionError(last') /\ events'[h] = events[h])]_vars

\* acknowledge() has just been refused on a NORMAL event, which is still NEW
C4_Witness ==
    /\ last.op = "acknowledge"
    /\ IsTransitionError(last)
    /\ events[last.arg].level = "NORMAL"
    /\ events[last.arg].status = "NEW"

StrictlyIncreasing(q) == \A i, j \in 1..Len(q) : i < j => q[i] < q[j]

\* C5 as stated: over any sequence of calls on the Event class the ids create
\* returns are strictly increasing, so none is returned twice.
C5_IdsNeverReused == StrictlyIncreasing(created)

\* C5 as amended: the ids create has returned since the last reset_id_counter
\* are strictly increasing.
C5_IdsIncreaseSinceReset ==
    StrictlyIncreasing(SubSeq(created, Len(created) - since_reset + 1, Len(created)))

\* create has returned two events since the counter was last reset
C5_Witness == last.op = "create" /\ last.raised = "ok" /\ since_reset >= 2

\* the services called so far by the running use case, in order
Services == [i \in 1..Len(calls) |-> calls[i].svc]

CallsTo(svc) == SelectSeq(calls, LAMBDA c : c.svc = svc)

\* process is running, or has ended and not yet returned
InProcess == last.op = "process" /\ pc # "idle"

\* C6: the calls of one process(batch) come in the order rule.apply, save,
\* alert, then the show calls; save gets what the rule returned; a call that
\* ran to its end made each of rule.apply, save and alert exactly once.
C6_StageOrder ==
    InProcess =>
        /\ \A i \in 1..Len(calls) :
            Services[i] = CASE i = 1 -> "rule.apply"
                            [] i = 2 -> "repository.save"
                            [] i = 3 -> "alert_service.alert"
                            [] OTHER -> "display_service.show"
        /\ Len(calls) >= 1 => calls[1].arg = batch
        /\ Len(calls) >= 2 => calls[2].arg = processed
        /\ pc = "save" => Len(calls) = 1
        /\ pc = "alert" => Len(calls) = 2
        /\ pc = "show" => Len(calls) >= 3
        /\ pc = "done" => Len(calls) >= 3

\* a call has run to its end with two events shown
C6_Witness == InProcess /\ pc = "done" /\ Len(calls) >= 5

\* C7: when a stage of process raises, the error reaches the caller and nothing
\* runs after the call that raised: none of rule.apply, save and alert is called
\* again, and after a failed save neither alert nor show is called.
C7_FailureAborts ==
    (last.op = "process" /\ last.raised # "ok") =>
        /\ pc \in {"failed", "idle"}
        /\ pc = "failed" =>
            /\ last.raised = "RuleError" => Services = <<"rule.apply">>
            /\ last.raised = "SaveError" => Services = <<"rule.apply", "repository.save">>
            /\ last.raised = "AttributeError" => Services = <<"rule.apply", "repository.save">>
            /\ last.raised = "AlertError"
                    => Services = <<"rule.apply", "repository.save", "alert_service.alert">>
            /\ last.raised = "ShowError"
                    => /\ Len(calls) = 3 + idx + 1
                       /\ SubSeq(Services, 1, 3) = <<"rule.apply", "repository.save", "alert_service.alert">>
                       /\ \A k \in 1..(idx + 1) : calls[3 + k] = Call("display_service.show", <<processed[k]>>)

\* save has raised on a batch that held an event flagged for alert
C7_Witness ==
    /\ InProcess
    /\ pc = "failed"
    /\ last.raised = "SaveError"
    /\ \E h \in Range(processed) : should_alert[h] = "T"

\* arg is the elements of list at the positions keep, in list order
IsSelection(arg, list, keep) ==
    /\ Len(arg) = Cardinality(keep)
    /\ \A i \in keep : arg[Cardinality({j \in keep : j <= i})] = list[i]

FlaggedPositions == {i \in 1..Len(processed) : should_alert[processed[i]] = "T"}

\* C8: process calls alert_service.alert at most once, exactly once when the
\* alert stage is reached, with the events of the annotated batch whose
\* should_alert is true, in batch order, each as often as it is in the batch.
C8_OneAlertCall ==
    InProcess =>
        /\ Len(CallsTo("alert_service.alert")) <= 1
        /\ pc \in {"show", "done"} => Len(CallsTo("alert_service.alert")) = 1
        /\ (pc = "failed" /\ last.raised \in {"AlertError", "ShowError"})
                => Len(CallsTo("alert_service.alert")) = 1
        /\ \A i \in 1..Len(calls) :
            calls[i].svc = "alert_service.alert"
                => IsSelection(calls[i].arg, processed, FlaggedPositions)

\* a custom rule flagged two events of three and the call ran to its end
C8_Witness ==
    /\ InProcess
    /\ pc = "done"
    /\ rule = "custom"
    /\ Len(processed) = 3
    /\ Cardinality(FlaggedPositions) = 2

NeedingAlertPositions ==
    {i \in 1..Len(batch) :
        events[batch[i]].level \in {"WARNING", "ERROR"} /\ events[batch[i]].status = "NEW"}

\* C9: under the default rule save receives the batch as it came and the alert
\* call receives the batch events that are WARNING or ERROR and still NEW.
C9_DefaultRuleAlerts ==
    (InProcess /\ rule = "default") =>
        \A i \in 1..Len(calls) :
            /\ calls[i].svc = "repository.save" => calls[i].arg = batch
            /\ calls[i].svc = "alert_service.alert"
                    => IsSelection(calls[i].arg, batch, NeedingAlertPositions)

\* the batch [ERROR-new, WARNING-acked, NORMAL-new] has alerted the first only
C9_Witness ==
    /\ InProcess
    /\ rule = "default"
    /\ pc = "done"
    /\ Len(batch) = 3
    /\ events[batch[1]].level = "ERROR" /\ events[batch[1]].status = "NEW"
    /\ events[batch[2]].level = "WARNING" /\ events[batch[2]].status = "ACKNOWLEDGED"
    /\ events[batch[3]].level = "NORMAL" /\ events[batch[3]].status = "NEW"
    /\ calls[2] = Call("repository.save", batch)
    /\ calls[3] = Call("alert_service.alert", <<batch[1]>>)

\* C10: a process call in which no stage raised has called show once per event
\* of the annotated batch, one event per call, in batch order.
C10_ShowEachInOrder ==
    (InProcess /\ pc = "done") =>
        /\ Len(CallsTo("display_service.show")) = Len(processed)
        /\ \A k \in 1..Len(processed) :
            CallsTo("display_service.show")[k].arg = <<processed[k]>>

\* three events were shown, one flagged for alert and one not
C10_Witness ==
    /\ InProcess
    /\ pc = "done"
    /\ Len(processed) = 3
    /\ \E i, j \in 1..3 : should_alert[processed[i]] = "T" /\ should_alert[processed[j]] = "F"
    /\ Len(CallsTo("display_service.show")) = 3

\* C11: when alert_service.alert raises inside process, the call ends there
\* with that error, which is what the caller gets; the failing step and the
\* return to the caller leave the store as save left it, so the batch is still
\* stored, and no repository call follows the alert call.
C11_AlertFailureKeepsBatch ==
    [][/\ (pc = "alert" /\ last'.raised = "AlertError") =>
            /\ pc' = "failed"
            /\ store' = store
            /\ Range(processed) \subseteq store'
            /\ calls' = Append(calls, Call("alert_service.alert", alerted_events(processed, should_alert)))
            /\ [i \in 1..Len(calls') |-> calls'[i].svc]
                    = <<"rule.apply", "repository.save", "alert_service.alert">>
       /\ (pc = "failed" /\ last.raised = "AlertError") =>
            /\ pc' = "idle"
            /\ store' = store
            /\ last' = last]_vars

\* alert has raised on a batch of two events that save had stored
C11_Witness ==
    /\ InProcess
    /\ pc = "failed"
    /\ last.raised = "AlertError"
    /\ Cardinality(Range(processed)) >= 2
    /\ Range(processed) \subseteq store
    /\ \E h \in Range(processed) : should_alert[h] = "T"

\* a sweep has ended: it ran through the list or an alert call raised
SweepEnded == last.op = "AlertEventsUseCase" /\ pc \in {"done", "failed"}

\* the positions of the list get_all() returned whose event needs an alert
SweepNeeding == {i \in 1..Len(processed) : needs_alert(events[processed[i]])}

\* C12 as stated: a sweep that has ended went over every stored event and
\* called alert_service.alert once for each one that needs an alert, with that
\* event alone, and made no other alert call.
C12_SweepAlertsEachOnce ==
    SweepEnded =>
        /\ Range(processed) = store
        /\ IsSelection([k \in 1..Len(CallsTo("alert_service.alert")) |->
                            CallsTo("alert_service.alert")[k].arg[1]],
                       processed, SweepNeeding)
        /\ \A k \in 1..Len(CallsTo("alert_service.alert")) :
                Len(CallsTo("alert_service.alert")[k].arg) = 1

\* C13 as stated: when an alert call of the sweep has raised, every event that
\* comes later in the list and needs an alert has still got its alert call by
\* the time the sweep ends.
C13_SweepContinuesAfterFailure ==
    (SweepEnded /\ last.raised = "AlertError") =>
        \A i \in (idx + 2)..Len(processed) :
            i \in SweepNeeding
                => \E k \in 1..Len(calls) : calls[k] = Call("alert_service.alert", <<processed[i]>>)

\* the step just taken was AckEventUseCase.execute(event_id)
AckExecuted(event_id) == last'.op = "AckEventUseCase" /\ last'.arg = event_id

\* the event that execute loaded, once it has called something on it
Loaded(o) == o.made[2].arg[1]

UpdateCalls(o) == SelectSeq(o.made, LAMBDA c : c.svc = "repository.update")

\* C14 as stated: execute(id) for an id the store does not hold raises an
\* EventNotFoundError, calls neither acknowledge nor update and leaves the
\* store and its events as they were.
C14_UnknownIdNotFound ==
    [][\A event_id \in Ids :
        (AckExecuted(event_id) /\ get_by_id(event_id) = {}) =>
            /\ is_instance(last'.raised, "EventNotFoundError")
            /\ last'.made = <<Call("repository.get_by_id", <<event_id>>)>>
            /\ store' = store
            /\ events' = events]_vars

\* C15: execute(id) for a stored event that is NEW with level WARNING or ERROR
\* calls get_by_id(id), acknowledge() on the event it got and update once with
\* that same event, in this order, and raises nothing; the event it returns is
\* that event, now ACKNOWLEDGED and otherwise as it was, and it is the stored
\* event with that id.
C15_AckLoadsAcknowledgesUpdates ==
    [][\A event_id \in Ids :
        (AckExecuted(event_id) /\ get_by_id(event_id) # {}) =>
            /\ Len(last'.made) >= 2
            /\ Loaded(last') \in get_by_id(event_id)
            /\ (events[Loaded(last')].status = "NEW"
                    /\ events[Loaded(last')].level \in {"WARNING", "ERROR"}) =>
                /\ last'.raised = "ok"
                /\ last'.made = << Call("repository.get_by_id", <<event_id>>),
                                   Call("event.acknowledge", <<Loaded(last')>>),
                                   Call("repository.update", <<Loaded(last')>>) >>
                /\ events' = [events EXCEPT ![Loaded(last')].status = "ACKNOWLEDGED"]
                /\ store' = store
                /\ \A h \in store' : events'[h].id = event_id
                        => (h = Loaded(last') \/ events'[h] = events[h])]_vars

\* the stored ERROR event with id 1 has just been acknowledged through the use
\* case
C15_Witness ==
    /\ last.op = "AckEventUseCase"
    /\ last.arg = 1
    /\ last.raised = "ok"
    /\ Len(UpdateCalls(last)) = 1
    /\ Loaded(last) \in store
    /\ events[Loaded(last)].level = "ERROR"
    /\ events[Loaded(last)].status = "ACKNOWLEDGED"

\* C16: when the event execute(id) loaded is NORMAL or already ACKNOWLEDGED,
\* execute raises the InvalidEventTransitionError of acknowledge(), does not
\* call update, and leaves the store and every event as they were.
C16_AckFailurePropagates ==
    [][\A event_id \in Ids :
        (/\ AckExecuted(event_id)
         /\ get_by_id(event_id) # {}
         /\ (events[Loaded(last')].level = "NORMAL"
                \/ events[Loaded(last')].status = "ACKNOWLEDGED")) =>
            /\ last'.raised = acknowledge(events[Loaded(last')]).raised
            /\ last'.raised = "InvalidEventTransitionError"
            /\ UpdateCalls(last') = <<>>
            /\ store' = store
            /\ events' = events]_vars

\* the use case has just been refused on a stored event that was ACKNOWLEDGED
\* already
C16_Witness ==
    /\ last.op = "AckEventUseCase"
    /\ IsTransitionError(last)
    /\ UpdateCalls(last) = <<>>
    /\ Loaded(last) \in store
    /\ events[Loaded(last)].level \in {"WARNING", "ERROR"}
    /\ events[Loaded(last)].status = "ACKNOWLEDGED"

\* C17: needs_alert() is true exactly for the events whose level is WARNING or
\* ERROR and whose status is NEW: it is false for every NORMAL event, for every
\* ACKNOWLEDGED event, and for the event a successful acknowledge() has just
\* been called on.
C17_NeedsAlertIff ==
    \A h \in Handles :
        /\ needs_alert(events[h])
                <=> (events[h].level \in {"WARNING", "ERROR"} /\ events[h].status = "NEW")
        /\ events[h].level = "NORMAL" => ~needs_alert(events[h])
        /\ events[h].status = "ACKNOWLEDGED" => ~needs_alert(events[h])
        /\ (last.op = "acknowledge" /\ last.arg = h /\ last.raised = "ok")
                => ~needs_alert(events[h])

\* of two WARNING events one has just been acknowledged and needs no alert any
\* more, the other still needs one
C17_Witness ==
    /\ Len(events) = 2
    /\ last = Outcome("acknowledge", 1, "ok")
    /\ events[1].level = "WARNING" /\ ~needs_alert(events[1])
    /\ events[2].level = "WARNING" /\ needs_alert(events[2])

\* the four conditions on the arguments of a constructor call
SourceIsBlank(a) == a.source \in {"", " "}

MetadataIsNoMapping(a) == a.metadata # "dict"

TimestampIsNaive(a) == a.timestamp.tzinfo = "none"

NormalAcknowledged(a) == a.level = "NORMAL" /\ a.status = "ACKNOWLEDGED"

ViolatesACondition(a) ==
    SourceIsBlank(a) \/ MetadataIsNoMapping(a) \/ TimestampIsNaive(a) \/ NormalAcknowledged(a)

\* C18: the constructor raises InvalidEventStateError, and builds no event, if
\* the source is empty or whitespace-only, or the metadata is not a mapping, or
\* the timestamp is naive, or the level is NORMAL with status ACKNOWLEDGED; for
\* every other combination of arguments it raises nothing and the new event
\* has the fields as given.
C18_ConstructionValidates ==
    last.op = "construct" =>
        /\ last.raised \in {"ok", "InvalidEventStateError"}
        /\ last.raised = "InvalidEventStateError" <=> ViolatesACondition(given)
        /\ last.raised = "ok" => (Len(events) >= 1 /\ events[Len(events)] = given)
        /\ last.raised = "InvalidEventStateError" => events = <<>>

\* the constructor has just refused NORMAL with ACKNOWLEDGED, the other three
\* arguments being valid
C18_Witness ==
    /\ last.op = "construct"
    /\ last.raised = "InvalidEventStateError"
    /\ NormalAcknowledged(given)
    /\ ~SourceIsBlank(given) /\ ~MetadataIsNoMapping(given) /\ ~TimestampIsNaive(given)

\* C19: the event a successful Event.create has just returned has status NEW,
\* whatever its level.
C19_CreatedIsNew ==
    (last.op = "create" /\ last.raised = "ok") =>
        /\ Len(events) >= 1
        /\ Len(created) >= 1
        /\ events[Len(events)].id = created[Len(created)]
        /\ events[Len(events)].status = "NEW"

\* create has returned a NORMAL event and then an ERROR event
C19_Witness ==
    /\ last.op = "create"
    /\ last.raised = "ok"
    /\ Len(created) = 2
    /\ Len(events) = 2
    /\ events[1].level = "NORMAL" /\ events[1].status = "NEW"
    /\ events[2].level = "ERROR" /\ events[2].status = "NEW"

\* how often h is in the list q
Occurrences(q, h) == Cardinality({i \in 1..Len(q) : q[i] = h})

\* C20: the list sorted() returns holds the events of the list it was given,
\* with no ERROR event after a WARNING or NORMAL one, no WARNING event after a
\* NORMAL one, and events of the same level in ascending order of timestamp.
C20_SortedByLevelThenTime ==
    (last.op = "sorted" /\ pc = "done") =>
        /\ \A h \in Handles : Occurrences(processed, h) = Occurrences(batch, h)
        /\ \A i, j \in 1..Len(processed) :
            i < j =>
                /\ events[processed[j]].level = "ERROR"
                        => events[processed[i]].level = "ERROR"
                /\ events[processed[j]].level = "WARNING"
                        => events[processed[i]].level \in {"ERROR", "WARNING"}
                /\ events[processed[i]].level = events[processed[j]].level
                        => events[processed[i]].timestamp.t <= events[processed[j]].timestamp.t

\* [NORMAL, ERROR (later), ERROR (earlier)] has been sorted into the reverse
C20_Witness ==
    /\ last.op = "sorted"
    /\ pc = "done"
    /\ Len(batch) = 3
    /\ events[batch[1]].level = "NORMAL"
    /\ events[batch[2]].level = "ERROR"
    /\ events[batch[3]].level = "ERROR"
    /\ events[batch[2]].timestamp.t > events[batch[3]].timestamp.t
    /\ processed = <<batch[3], batch[2], batch[1]>>

\* C21 as stated: Event.__lt__ is irreflexive and transitive, and of two events
\* with different ids exactly one is less than the other.
C21_TotalOrder ==
    /\ \A a \in Handles : ~event_lt(events[a], events[a])
    /\ \A a, b, c \in Handles :
            (event_lt(events[a], events[b]) /\ event_lt(events[b], events[c]))
                => event_lt(events[a], events[c])
    /\ \A a, b \in Handles :
            events[a].id # events[b].id
                => (event_lt(events[a], events[b]) <=> ~event_lt(events[b], events[a]))

\* C22: a == b on two events is true exactly when they have the same id,
\* whatever their other fields are.
C22_EqualById ==
    last.op = "__eq__" =>
        /\ last.returned \in {"True", "False"}
        /\ last.returned = "True" <=> events[last.arg[1]].id = events[last.arg[2]].id

\* two events with the same id that differ in every other field have just
\* compared equal
C22_Witness ==
    /\ last.op = "__eq__"
    /\ last.returned = "True"
    /\ events[last.arg[1]].id = events[last.arg[2]].id
    /\ events[last.arg[1]].source # events[last.arg[2]].source
    /\ events[last.arg[1]].metadata # events[last.arg[2]].metadata
    /\ events[last.arg[1]].level # events[last.arg[2]].level
    /\ events[last.arg[1]].timestamp # events[last.arg[2]].timestamp
    /\ events[last.arg[1]].status # events[last.arg[2]].status

\* a sweep is running or has ended and not yet returned
InSweep == last.op = "AlertEventsUseCase" /\ pc # "idle"

\* the list positions the loop of the sweep has reached so far
SweepReached == 1..(IF pc = "failed" THEN idx + 1 ELSE idx)

SweepAlerted ==
    [k \in 1..Len(CallsTo("alert_service.alert")) |-> CallsTo("alert_service.alert")[k].arg[1]]

\* C23: the alert calls of a sweep are, in the order of the list get_all()
\* returned, the events of that list that need an alert, as far as the loop
\* has come; the list being in priority order, no ERROR event is alerted after
\* a WARNING event and within a level no event before an older one.
C23_SweepInStoreOrder ==
    InSweep =>
        /\ processed \in get_all
        /\ IsSelection(SweepAlerted, processed, SweepNeeding \cap SweepReached)
        /\ \A k, l \in 1..Len(SweepAlerted) :
            k < l =>
                /\ events[SweepAlerted[l]].level = "ERROR"
                        => events[SweepAlerted[k]].level = "ERROR"
                /\ events[SweepAlerted[k]].level = events[SweepAlerted[l]].level
                        => events[SweepAlerted[k]].timestamp.t <= events[SweepAlerted[l]].timestamp.t

\* a sweep has alerted an ERROR event, then an older and a newer WARNING event
C23_Witness ==
    /\ InSweep
    /\ pc = "done"
    /\ Len(SweepAlerted) = 3
    /\ events[SweepAlerted[1]].level = "ERROR"
    /\ events[SweepAlerted[2]].level = "WARNING"
    /\ events[SweepAlerted[3]].level = "WARNING"
    /\ events[SweepAlerted[2]].timestamp.t < events[SweepAlerted[3]].timestamp.t

\* C24: acknowledge() leaves the id, source, level, timestamp and metadata of
\* the event as they were; when it succeeds the status is the one field that
\* changed, and when it raises no field changed.
C24_AcknowledgeFrame ==
    [][\A h \in Handles :
        AcknowledgedNow(h) =>
            /\ events'[h].id = events[h].id
            /\ events'[h].source = events[h].source
            /\ events'[h].level = events[h].level
            /\ events'[h].timestamp = events[h].timestamp
            /\ events'[h].metadata = events[h].metadata
            /\ last'.raised = "ok" => events'[h].status # events[h].status
            /\ last'.raised # "ok" => events'[h] = events[h]]_vars

\* an event with source "db" and metadata {"k": 1} has just been acknowledged
C24_Witness ==
    /\ last.op = "acknowledge"
    /\ last.raised = "ok"
    /\ events[last.arg].source = "db"
    /\ events[last.arg].metadata = "dict_k"
    /\ events[last.arg].status = "ACKNOWLEDGED"

\* the running sweep has called alert_service.alert with the event h
AlertedInSweep(h) ==
    \E k \in 1..Len(calls) : calls[k] = Call("alert_service.alert", <<h>>)

\* C25 as stated: a step of a sweep changes neither the store nor any event;
\* a sweep that has ended has made no alert call for a stored event that is
\* ACKNOWLEDGED (as every event is for good once AckEventUseCase succeeded on
\* it), and has made one for every stored event that needs an alert.
C25_AckedNeverOthersEverySweep ==
    [][/\ (last'.op = "AlertEventsUseCase" /\ pc' # "idle")
            => (store' = store /\ events' = events)
       /\ SweepEnded =>
            \A h \in store :
                /\ events[h].status = "ACKNOWLEDGED" => ~AlertedInSweep(h)
                /\ needs_alert(events[h]) => AlertedInSweep(h)]_vars

\* C26: a call of Event.create leaves the counter one higher than it found it,
\* whether it returns an event (whose id is the value the counter had) or
\* fails validation (and then builds no event); so with no reset in between
\* the ids create has returned are the counter values of the calls that
\* succeeded, and a value a failed call took is not among them.
C26_CreateConsumesId ==
    [][last'.op = "create" =>
        /\ next_id' = next_id + 1
        /\ last'.raised = "ok" =>
                /\ events' = Append(events, events'[Len(events')])
                /\ events'[Len(events')].id = next_id
                /\ created' = Append(created, next_id)
        /\ last'.raised # "ok" =>
                /\ last'.raised = "InvalidEventStateError"
                /\ events' = events
                /\ created' = created]_vars

\* the first create failed and took id 1: the one event created has id 2
C26_Witness ==
    /\ last.op = "create"
    /\ last.raised = "ok"
    /\ created = <<2>>
    /\ Len(events) = 1
    /\ events[1].id = 2
    /\ next_id = 3

\* C27 as stated: of two concurrent execute calls for the same id, if one has
\* returned the event then the other, once it has ended, has raised the
\* transition error.
C27_OneConcurrentAckSucceeds ==
    \A t, u \in Threads :
        (/\ t # u
         /\ threads[t].event_id = threads[u].event_id
         /\ threads[t].pc = "returned"
         /\ threads[u].pc \in {"returned", "raised"})
            => (threads[u].pc = "raised" /\ threads[u].raised = "InvalidEventTransitionError")

\* C28 as stated: when the two concurrent create calls have ended they took
\* different ids and the counter, which was 1, is two higher.
C28_ConcurrentCreatesDistinctIds ==
    (\A t \in Threads : threads[t].pc \in {"returned", "raised"}) =>
        /\ \A t, u \in Threads : t # u => threads[t].event_id # threads[u].event_id
        /\ next_id = 1 + Cardinality(Threads)

====
